---- MODULE Spec2Model ----
(***************************************************************************)
(* A model of asynchronous.py: the class based decorator protocol          *)
(* (_Decorator), the dispatch strategies (_AsyncBase, _QueuedResultBase,   *)
(* _BlockingBase) and the thread/process families built from them.         *)
(*                                                                         *)
(* Python values are records [t, v]: t is the type tag and v an integer    *)
(* (the number itself, or an index into a catalogue or a state sequence).  *)
(* An instance __dict__ and a **kwargs mapping are functions from          *)
(* attribute / keyword names to values.                                    *)
(***************************************************************************)
EXTENDS Integers, Sequences, FiniteSets, TLC

(* ------------------------------ bounds -------------------------------- *)

\* invocations of __call__ in one behaviour
MaxCalls == 2

(* --------------------------- Python values ---------------------------- *)

None == [t |-> "None", v |-> 0]
PyInt(n) == [t |-> "int", v |-> n]
Bool(b) == [t |-> "bool", v |-> IF b THEN 1 ELSE 0]
Func(i) == [t |-> "function", v |-> i]
Obj(i) == [t |-> "object", v |-> i]
Chan(i) == [t |-> "Queue", v |-> i]
Handle(i) == [t |-> "thread", v |-> i]
WrapperRef == [t |-> "decorator", v |-> 0]
Opts(i) == [t |-> "dict", v |-> i]
Str(i) == [t |-> "str", v |-> i]

\* Python truth value testing, as used by "if function:" and "if self.function:"
Truthy(x) ==
    CASE x.t = "None" -> FALSE
      [] x.t = "int" -> x.v # 0
      [] x.t = "bool" -> x.v # 0
      [] OTHER -> TRUE

EmptyDict == [k \in {} |-> None]

\* dict.update(e) / setattr
DictUpdate(d, e) ==
    [k \in DOMAIN d \cup DOMAIN e |-> IF k \in DOMAIN e THEN e[k] ELSE d[k]]

SetAttr(d, k, x) == DictUpdate(d, [j \in {k} |-> x])

\* mutant: x always goes to the front
ListInsert_front(s, i, x) == <<x>> \o s

\* list.insert(i, x) for i >= 0: x goes before position i, or at the end
\* when the list is shorter than i  (positions counted from 0)
ListInsert(s, i, x) ==
    LET at == IF i > Len(s) THEN Len(s) ELSE i
    IN  SubSeq(s, 1, at) \o <<x>> \o SubSeq(s, at + 1, Len(s))

(* ------------------------- the wrapped callables ---------------------- *)

SELF == "self"
CLS == "cls"

\* A callable: its declared parameters (the last ndefaults of them have the
\* default None), whether it declares *args, the attributes set on the
\* function object (its __dict__), and its body: the body sends, in order,
\* each element of out on the parameter named chan (an element is the value
\* bound to a parameter, or a literal), then returns, raises or never ends.
Fn(name, params, ndefaults, varargs, chan, out, ends, fdict) ==
    [name |-> name, params |-> params, ndefaults |-> ndefaults,
     varargs |-> varargs, chan |-> chan, out |-> out, ends |-> ends,
     fdict |-> fdict]

P(name) == [param |-> name, lit |-> 0]
Lit(n) == [param |-> "", lit |-> n]

FuncDefs ==
    << Fn("noargs", <<>>, 0, FALSE, "", <<>>, "return", EmptyDict),
       Fn("work", <<"a">>, 1, FALSE, "", <<>>, "return", EmptyDict),
       Fn("produce", <<"q", "a">>, 0, FALSE, "q", <<P("a")>>, "return", EmptyDict),
       Fn("method", <<SELF, "q", "a">>, 0, FALSE, "q", <<P("a")>>, "return", EmptyDict),
       Fn("twice", <<"q", "a">>, 0, FALSE, "q", <<P("a"), Lit(9)>>, "return", EmptyDict),
       Fn("silent", <<CLS, "q">>, 0, FALSE, "q", <<>>, "raise", EmptyDict),
       Fn("forever", <<"q">>, 0, FALSE, "q", <<>>, "hang", EmptyDict),
       Fn("tagged", <<"q", "a">>, 0, FALSE, "q", <<P("a")>>, "return",
          [k \in {"daemon"} |-> Bool(FALSE)]),
       Fn("collect", <<>>, 0, TRUE, "", <<>>, "return", EmptyDict) >>

NFuncs == Len(FuncDefs)

Callables == {Func(i) : i \in 1..NFuncs}

\* arguments that are not callable, handed to a configuration-only wrapper
NonCallables == {PyInt(5)}

(* --------------------- argument binding of a call --------------------- *)

\* The result of binding target(*args, **kwargs): ok is FALSE when Python
\* raises TypeError (target not callable, too many positional arguments, an
\* unexpected keyword, two values for one parameter, a missing argument);
\* otherwise env maps each parameter to its value.
Bind(target, args, kwargs) ==
    IF target.t # "function"
    THEN [ok |-> FALSE, env |-> EmptyDict]
    ELSE
      LET f == FuncDefs[target.v]
          n == Len(f.params)
          npos == IF Len(args) < n THEN Len(args) ELSE n
          names == {f.params[i] : i \in 1..n}
          byPos == {f.params[i] : i \in 1..npos}
          hasDefault == {f.params[i] : i \in (n - f.ndefaults + 1)..n}
          tooMany == Len(args) > n /\ ~f.varargs
          unexpected == \E k \in DOMAIN kwargs : k \notin names
          twice == \E k \in DOMAIN kwargs : k \in byPos
          missing == \E p \in names :
                        /\ p \notin byPos
                        /\ p \notin DOMAIN kwargs
                        /\ p \notin hasDefault
          idx(p) == CHOOSE i \in 1..n : f.params[i] = p
      IN  IF tooMany \/ unexpected \/ twice \/ missing
          THEN [ok |-> FALSE, env |-> EmptyDict]
          ELSE [ok |-> TRUE,
                env |-> [p \in names |->
                           IF p \in byPos THEN args[idx(p)]
                           ELSE IF p \in DOMAIN kwargs THEN kwargs[p]
                           ELSE None]]

(* ----------------------- multiprocessing.Queue ------------------------ *)

\* Queue.put serialises the object, Queue.get rebuilds it
Pickle(x) == <<x.t, x.v>>
Unpickle(p) == [t |-> p[1], v |-> p[2]]

\* mutant: the item put is lost
QueuePut_lost(q, x) == q

QueuePut(q, x) == Append(q, Pickle(x))
QueueHead(q) == Unpickle(Head(q))
QueueRest(q) == Tail(q)

(* -------------------- threading.Thread / Process ---------------------- *)

\* the backend-native keyword options a decorator is configured with
OptionSets == << EmptyDict, [k \in {"name"} |-> Str(0)] >>

\* Thread(target=..., args=..., kwargs=..., **options): a new unit, not yet
\* started; its daemon flag is inherited from the creating (main) thread
NewThread(interface, target, args, kwargs, options) ==
    [interface |-> interface, target |-> target, args |-> args,
     kwargs |-> kwargs, options |-> options, daemon |-> Bool(FALSE),
     started |-> FALSE, daemonAtStart |-> None,
     pc |-> "new", k |-> 0, sent |-> <<>>, err |-> ""]

\* thread.daemon = x
SetDaemon(th, x) == [th EXCEPT !.daemon = x]

\* mutant: the unit is never started
ThreadStart_never(th) == th

\* thread.start(): the unit begins to run with the daemon flag it has now
ThreadStart(th) ==
    [th EXCEPT !.started = TRUE, !.pc = "started", !.daemonAtStart = th.daemon]

(* ---------------------------- the classes ----------------------------- *)

Classes ==
    {"Thread", "Thread.QueuedResult", "Thread.Blocking",
     "Process", "Process.QueuedResult", "Process.Blocking"}

\* the base class a concrete class derives its __decorator__/__wrap__ from
Variant(cls) ==
    CASE cls \in {"Thread", "Process"} -> "_AsyncBase"
      [] cls \in {"Thread.QueuedResult", "Process.QueuedResult"} -> "_QueuedResultBase"
      [] OTHER -> "_BlockingBase"

\* the _THREADING_INTERFACE class attribute
ThreadingInterface(cls) ==
    IF cls \in {"Thread", "Thread.QueuedResult", "Thread.Blocking"}
    THEN "threading.Thread" ELSE "multiprocessing.Process"

(* ------------------------------ wrapping ------------------------------ *)

\* mutant: only "self" is taken for a receiver
get_insertion_index_selfonly(function) ==
    IF function.t # "function"
    THEN [ok |-> FALSE, index |-> 0]
    ELSE
      LET argspec == FuncDefs[function.v].params
      IN  [ok |-> TRUE,
           index |-> IF argspec # <<>> /\ argspec[1] = SELF THEN 1 ELSE 0]

\* _QueuedResultBase._get_insertion_index: getargspec raises TypeError when
\* its argument is not a function
get_insertion_index(function) ==
    IF function.t # "function"
    THEN [ok |-> FALSE, index |-> 0]
    ELSE
      LET argspec == FuncDefs[function.v].params
          isMethodOrClassmethod ==
              /\ argspec # <<>>
              /\ (argspec[1] = SELF \/ argspec[1] = CLS)
      IN  [ok |-> TRUE, index |-> IF isMethodOrClassmethod THEN 1 ELSE 0]

\* the interpreters the module runs under (inspect.getargspec exists in both)
PythonVersions == {2, 3}

\* functools.update_wrapper(self, wrapped): copies __module__, __name__ and
\* __doc__ and merges wrapped.__dict__ into self.__dict__.  For an object
\* without those attributes Python 2 raises AttributeError at the first one
\* missing; Python 3 skips what is missing (an int still has a __doc__, its
\* type's).  Python 3's extra attributes (__qualname__, __wrapped__) are
\* left out.
update_wrapper(d, wrapped, py) ==
    IF wrapped.t = "function"
    THEN
      LET assigned == DictUpdate(d, [k \in {"__module__", "__name__", "__doc__"} |->
                                       Str(wrapped.v)])
      IN  [d |-> DictUpdate(assigned, FuncDefs[wrapped.v].fdict), exc |-> ""]
    ELSE
      IF py = 2
      THEN [d |-> d, exc |-> "AttributeError"]
      ELSE [d |-> SetAttr(d, "__doc__", Str(0)), exc |-> ""]

\* mutant: the function is stored but its attributes are not taken over
Decorator_wrap_noupdate(d, function, py) ==
    [d |-> SetAttr(d, "function", function), exc |-> "", indexed |-> 0]

\* _Decorator.__wrap__
\* (indexed: how many times this __wrap__ has set QUEUE_INSERTION_INDEX)
Decorator_wrap(d, function, py) ==
    LET r == update_wrapper(SetAttr(d, "function", function), function, py)
    IN  [d |-> r.d, exc |-> r.exc, indexed |-> 0]

\* _QueuedResultBase.__wrap__
QueuedResultBase_wrap(d, function, py) ==
    LET ix == get_insertion_index(function)
    IN  IF ~ix.ok
        THEN [d |-> d, exc |-> "TypeError", indexed |-> 0]
        ELSE [Decorator_wrap(SetAttr(d, "QUEUE_INSERTION_INDEX", PyInt(ix.index)),
                             function, py) EXCEPT !.indexed = 1]

\* mutant: the insertion index is computed again on the wrapped wrapper
Wrap_twice(cls, d, function, py) ==
    IF Variant(cls) = "_AsyncBase"
    THEN Decorator_wrap(d, function, py)
    ELSE LET r1 == QueuedResultBase_wrap(d, function, py)
             r2 == QueuedResultBase_wrap(r1.d, function, py)
         IN  IF r1.exc # "" THEN r1
             ELSE [r2 EXCEPT !.indexed = r1.indexed + r2.indexed]

\* self.__wrap__(function), resolved on the class of self
Wrap(cls, d, function, py) ==
    IF Variant(cls) = "_AsyncBase"
    THEN Decorator_wrap(d, function, py)
    ELSE QueuedResultBase_wrap(d, function, py)

\* _Decorator.__init__
Decorator_init(cls, function, py) ==
    LET d == SetAttr(EmptyDict, "function", function)
    IN  IF Truthy(function) THEN Wrap(cls, d, function, py)
        ELSE [d |-> d, exc |-> "", indexed |-> 0]

\* _AsyncBase.__init__
AsyncBase_init(cls, function, daemon, kwargs, py) ==
    LET r == Decorator_init(cls, function, py)
    IN  IF r.exc # "" THEN r
        ELSE [d |-> SetAttr(SetAttr(r.d, "daemon", daemon), "kwargs", kwargs),
              exc |-> "", indexed |-> r.indexed]

(* ------------------------------ dispatch ------------------------------ *)

\* mutant: the keyword arguments are not handed to the unit
AsyncBase_decorator_nokwargs(cls, d, args, kwargs) ==
    ThreadStart(
        SetDaemon(
            NewThread(ThreadingInterface(cls), d["function"], args, EmptyDict,
                      OptionSets[d["kwargs"].v]),
            d["daemon"]))

\* _AsyncBase.__decorator__: create, configure and start a thread-like
\* object; the value is that object
AsyncBase_decorator(cls, d, args, kwargs) ==
    ThreadStart(
        SetDaemon(
            NewThread(ThreadingInterface(cls), d["function"], args, kwargs,
                      OptionSets[d["kwargs"].v]),
            d["daemon"]))

\* mutant: one queue, the first allocated, is handed back by every call
QueuedResultBase_decorator_shared(cls, d, args, kwargs, queue) ==
    [thread |-> ThreadStart(
                    SetDaemon(
                        NewThread(ThreadingInterface(cls), d["function"],
                                  ListInsert(args, d["QUEUE_INSERTION_INDEX"].v, queue),
                                  kwargs, OptionSets[d["kwargs"].v]),
                        d["daemon"])),
     queue |-> Chan(1)]

\* mutant: the queue is allocated once for the class, every call injects
\* and hands back that one
QueuedResultBase_decorator_classqueue(cls, d, args, kwargs, queue) ==
    [thread |-> AsyncBase_decorator(
                    cls, d,
                    ListInsert(args, d["QUEUE_INSERTION_INDEX"].v, Chan(1)),
                    kwargs),
     queue |-> Chan(1)]

\* _QueuedResultBase.__decorator__: queue is the Queue() just allocated; the
\* value is the pair (thread, queue)
QueuedResultBase_decorator(cls, d, args, kwargs, queue) ==
    [thread |-> AsyncBase_decorator(
                    cls, d,
                    ListInsert(args, d["QUEUE_INSERTION_INDEX"].v, queue),
                    kwargs),
     queue |-> queue]

\* mutant: the QueuedResult variant waits in queue.get() as well
AfterDecorator_waits(variant) ==
    IF variant = "_AsyncBase" THEN "returned" ELSE "get"

\* where the caller is once __decorator__ has dispatched: only
\* _BlockingBase.__decorator__ goes on, into queue.get(); the others return
AfterDecorator(variant) ==
    IF variant = "_BlockingBase" THEN "get" ELSE "returned"

\* mutant: __get__ gives self also when accessed through an instance
BoundArgs_unbound(instance, args) == args

\* _Decorator.__get__: partial(self, instance) puts the instance in front of
\* the caller's arguments; class-level access (instance None) gives self
BoundArgs(instance, args) ==
    IF instance = None THEN args ELSE <<instance>> \o args

(* ------------------------------- state -------------------------------- *)

VARIABLES
    wrapper,    \* the decorator object: class, __dict__, and its history: the
                \* constructor arguments (ctor), the argument of the latest
                \* __wrap__ (wrapped), the number of __wrap__ calls (wraps)
                \* and of assignments to QUEUE_INSERTION_INDEX (indexed)
    calls,      \* the invocations of __call__, with the caller's position
    units,      \* the thread-like objects created
    chans       \* the Queue objects allocated, each the sequence of pickled items

vars == <<wrapper, calls, units, chans>>

\* decoration-time configuration: daemon (given or left to its default) and
\* the passthrough options
Configs ==
    { [given |-> FALSE, daemon |-> Bool(TRUE), kwargs |-> Opts(1)],
      [given |-> TRUE, daemon |-> Bool(FALSE), kwargs |-> Opts(2)] }

\* the ways a caller invokes a wrapper that holds a function: through an
\* instance or not, with positional and keyword arguments
CallShapes ==
    { [inst |-> None, args |-> <<>>, kwargs |-> EmptyDict],
      [inst |-> None, args |-> <<PyInt(1)>>, kwargs |-> EmptyDict],
      [inst |-> None, args |-> <<>>, kwargs |-> [k \in {"a"} |-> PyInt(2)]],
      [inst |-> None, args |-> <<>>, kwargs |-> [k \in {"b"} |-> PyInt(1)]],
      [inst |-> Obj(1), args |-> <<PyInt(1)>>, kwargs |-> EmptyDict],
      [inst |-> None, args |-> <<Func(1)>>, kwargs |-> EmptyDict] }

\* the ways a configuration-only wrapper is invoked: with nothing, with the
\* function to decorate, or with something that is not callable
WrapShapes ==
    { [inst |-> None, args |-> <<>>, kwargs |-> EmptyDict] }
    \cup { [inst |-> None, args |-> <<x>>, kwargs |-> EmptyDict] :
             x \in Callables \cup NonCallables }

\* no decorator object has been constructed yet
NoWrapper ==
    [cls |-> "", d |-> EmptyDict,
     ctor |-> [function |-> None, daemon |-> None, kwargs |-> None],
     wrapped |-> None, wraps |-> 0, indexed |-> 0]

Init ==
    /\ wrapper = NoWrapper
    /\ calls = <<>>
    /\ units = <<>>
    /\ chans = <<>>

\* cls(function, daemon=..., **kwargs) or cls(daemon=..., **kwargs)
Construct(cls, function, cfg) ==
    /\ wrapper = NoWrapper
    /\ \E py \in PythonVersions :
         LET r == AsyncBase_init(cls, function,
                                 IF cfg.given THEN cfg.daemon ELSE Bool(TRUE),
                                 cfg.kwargs, py)
         IN  /\ r.exc = ""
             /\ wrapper' =
                  [cls |-> cls, d |-> r.d,
                   ctor |-> [function |-> function,
                             daemon |-> IF cfg.given THEN cfg.daemon ELSE Bool(TRUE),
                             kwargs |-> cfg.kwargs],
                   wrapped |-> function,
                   wraps |-> IF Truthy(function) THEN 1 ELSE 0,
                   indexed |-> r.indexed]
    /\ UNCHANGED <<calls, units, chans>>

NewCall(shape) ==
    [inst |-> shape.inst, args |-> shape.args, kwargs |-> shape.kwargs,
     branch |-> "", pc |-> "", exc |-> "", result |-> <<>>,
     unit |-> 0, queue |-> 0, got |-> <<>>, empties |-> 0]

\* _Decorator.__call__, first branch: the wrapper holds a function, so
\* __decorator__ of its class runs
Dispatch(shape) ==
    LET self == wrapper
        args == BoundArgs(shape.inst, shape.args)
        uid == Len(units) + 1
        qid == Len(chans) + 1
        c == [NewCall(shape) EXCEPT !.branch = "dispatch", !.unit = uid]
    IN  CASE Variant(self.cls) = "_AsyncBase" ->
               /\ units' = Append(units,
                      AsyncBase_decorator(self.cls, self.d, args, shape.kwargs))
               /\ chans' = chans
               /\ calls' = Append(calls,
                      [c EXCEPT !.pc = AfterDecorator("_AsyncBase"),
                                !.result = <<Handle(uid)>>])
          [] Variant(self.cls) = "_QueuedResultBase" ->
               LET r == QueuedResultBase_decorator(self.cls, self.d, args,
                                                   shape.kwargs, Chan(qid))
               IN  /\ units' = Append(units, r.thread)
                   /\ chans' = Append(chans, <<>>)
                   /\ calls' = Append(calls,
                          [c EXCEPT !.pc = AfterDecorator("_QueuedResultBase"),
                                    !.result = <<Handle(uid), r.queue>>,
                                    !.queue = r.queue.v])
          [] OTHER ->
               \* _BlockingBase.__decorator__: "_, queue = super()...", then
               \* the caller waits in queue.get()
               LET r == QueuedResultBase_decorator(self.cls, self.d, args,
                                                   shape.kwargs, Chan(qid))
               IN  /\ units' = Append(units, r.thread)
                   /\ chans' = Append(chans, <<>>)
                   /\ calls' = Append(calls,
                          [c EXCEPT !.pc = AfterDecorator("_BlockingBase"),
                                    !.queue = r.queue.v])

\* _Decorator.__call__, second branch: the wrapper holds no function, so
\* args[0] is wrapped and the wrapper itself is the value
DeferredWrap(shape) ==
    LET self == wrapper
        args == BoundArgs(shape.inst, shape.args)
        c == [NewCall(shape) EXCEPT !.branch = "wrap"]
    IN  IF args = <<>>
        THEN /\ calls' = Append(calls, [c EXCEPT !.pc = "raised",
                                                 !.exc = "IndexError"])
             /\ wrapper' = wrapper
        ELSE \E py \in PythonVersions :
               LET r == Wrap(self.cls, self.d, args[1], py)
               IN  /\ wrapper' = [wrapper EXCEPT !.d = r.d, !.wrapped = args[1],
                                                  !.wraps = @ + 1,
                                                  !.indexed = @ + r.indexed]
                   /\ calls' = Append(calls,
                          IF r.exc # ""
                          THEN [c EXCEPT !.pc = "raised", !.exc = r.exc]
                          ELSE [c EXCEPT !.pc = "returned",
                                         !.result = <<WrapperRef>>])

\* mutant: a call whose only argument is a callable wraps it, whether or not
\* the wrapper holds a function already
Call_rewraps(shape) ==
    /\ Len(calls) < MaxCalls
    /\ wrapper # NoWrapper
    /\ IF /\ Truthy(wrapper.d["function"])
          /\ ~(Len(shape.args) = 1 /\ shape.args[1] \in Callables)
       THEN /\ shape \in CallShapes
            /\ Dispatch(shape)
            /\ UNCHANGED wrapper
       ELSE /\ shape \in CallShapes \cup WrapShapes
            /\ DeferredWrap(shape)
            /\ UNCHANGED <<units, chans>>

\* wrapper(*args, **kwargs), or instance.wrapper(*args, **kwargs)
Call(shape) ==
    /\ Len(calls) < MaxCalls
    /\ wrapper # NoWrapper
    /\ IF Truthy(wrapper.d["function"])
       THEN /\ shape \in CallShapes
            /\ Dispatch(shape)
            /\ UNCHANGED wrapper
       ELSE /\ shape \in WrapShapes
            /\ DeferredWrap(shape)
            /\ UNCHANGED <<units, chans>>

\* mutant: the receive does not wait; on an empty queue the call gives None
BlockingGet_nowait(c) ==
    /\ c \in 1..Len(calls)
    /\ calls[c].pc = "get"
    /\ LET q == calls[c].queue
       IN  IF chans[q] # <<>>
           THEN /\ calls' = [calls EXCEPT ![c].pc = "returned",
                                          ![c].result = <<QueueHead(chans[q])>>]
                /\ chans' = [chans EXCEPT ![q] = QueueRest(@)]
           ELSE /\ calls' = [calls EXCEPT ![c].pc = "returned",
                                          ![c].result = <<None>>]
                /\ chans' = chans
    /\ UNCHANGED <<wrapper, units>>

\* mutant: the receive gives up, with None, once the unit has finished and
\* the queue is empty
BlockingGet_giveup(c) ==
    /\ c \in 1..Len(calls)
    /\ calls[c].pc = "get"
    /\ LET q == calls[c].queue
       IN  IF chans[q] # <<>>
           THEN /\ calls' = [calls EXCEPT ![c].pc = "returned",
                                          ![c].result = <<QueueHead(chans[q])>>]
                /\ chans' = [chans EXCEPT ![q] = QueueRest(@)]
           ELSE /\ units[calls[c].unit].pc \in {"done", "failed"}
                /\ calls' = [calls EXCEPT ![c].pc = "returned",
                                          ![c].result = <<None>>]
                /\ chans' = chans
    /\ UNCHANGED <<wrapper, units>>

\* mutant: the receive takes every item that is on the queue and gives the
\* first
BlockingGet_drain(c) ==
    /\ c \in 1..Len(calls)
    /\ calls[c].pc = "get"
    /\ chans[calls[c].queue] # <<>>
    /\ calls' = [calls EXCEPT ![c].pc = "returned",
                              ![c].result = <<QueueHead(chans[calls[c].queue])>>]
    /\ chans' = [chans EXCEPT ![calls[c].queue] = <<>>]
    /\ UNCHANGED <<wrapper, units>>

\* the caller of a Blocking wrapper leaves queue.get() with the first item
BlockingGet(c) ==
    /\ c \in 1..Len(calls)
    /\ calls[c].pc = "get"
    /\ chans[calls[c].queue] # <<>>
    /\ calls' = [calls EXCEPT ![c].pc = "returned",
                              ![c].result = <<QueueHead(chans[calls[c].queue])>>]
    /\ chans' = [chans EXCEPT ![calls[c].queue] = QueueRest(@)]
    /\ UNCHANGED <<wrapper, units>>

\* the caller of a QueuedResult wrapper reads the queue it was handed,
\* without waiting: it gets the first item, or finds the queue empty; it
\* reads until a read finds the queue empty
QueueRead(c) ==
    /\ c \in 1..Len(calls)
    /\ calls[c].pc = "returned"
    /\ Len(calls[c].result) = 2
    /\ calls[c].empties = 0
    /\ LET q == calls[c].result[2].v
       IN  IF chans[q] # <<>>
           THEN /\ calls' = [calls EXCEPT ![c].got = Append(@, QueueHead(chans[q]))]
                /\ chans' = [chans EXCEPT ![q] = QueueRest(@)]
           ELSE /\ calls' = [calls EXCEPT ![c].empties = @ + 1]
                /\ chans' = chans
    /\ UNCHANGED <<wrapper, units>>

\* the unit once the body of callable f has nothing more to send: the body
\* returns, raises, or never ends
BodyEnd(th, f) ==
    CASE f.ends = "return" -> [th EXCEPT !.pc = "done"]
      [] f.ends = "raise" -> [th EXCEPT !.pc = "failed", !.err = "RuntimeError"]
      [] OTHER -> [th EXCEPT !.pc = "running"]

\* the started unit calls target(*args, **kwargs): the arguments are bound
\* to the parameters, or TypeError is raised inside the unit; a body that
\* sends nothing runs to its end
UnitBind(u) ==
    /\ u \in 1..Len(units)
    /\ units[u].pc = "started"
    /\ units' = [units EXCEPT ![u] =
          IF ~Bind(@.target, @.args, @.kwargs).ok
          THEN [@ EXCEPT !.pc = "failed", !.err = "TypeError"]
          ELSE IF FuncDefs[@.target.v].out = <<>>
               THEN BodyEnd(@, FuncDefs[@.target.v])
               ELSE [@ EXCEPT !.pc = "running"]]
    /\ UNCHANGED <<wrapper, calls, chans>>

\* the body of the callable puts its next value on what it takes as its
\* queue (AttributeError inside the unit when that is no queue); after its
\* last value the body runs to its end
UnitSend(u) ==
    /\ u \in 1..Len(units)
    /\ units[u].pc = "running"
    /\ LET th == units[u]
           f == FuncDefs[th.target.v]
           env == Bind(th.target, th.args, th.kwargs).env
       IN  /\ th.k < Len(f.out)
           /\ LET q == env[f.chan]
                  what == f.out[th.k + 1]
                  x == IF what.param = "" THEN PyInt(what.lit) ELSE env[what.param]
                  sent == [th EXCEPT !.k = @ + 1,
                                     !.sent = Append(@, [q |-> q.v, x |-> x])]
              IN  IF q.t = "Queue"
                  THEN /\ chans' = [chans EXCEPT ![q.v] = QueuePut(@, x)]
                       /\ units' = [units EXCEPT ![u] =
                             IF sent.k = Len(f.out) THEN BodyEnd(sent, f)
                             ELSE sent]
                  ELSE /\ chans' = chans
                       /\ units' = [units EXCEPT ![u].pc = "failed",
                                                 ![u].err = "AttributeError"]
    /\ UNCHANGED <<wrapper, calls>>

Next ==
    \/ \E cls \in Classes, f \in Callables \cup {None}, cfg \in Configs :
          Construct(cls, f, cfg)
    \/ \E shape \in CallShapes \cup WrapShapes : Call(shape)
    \/ \E c \in 1..MaxCalls : BlockingGet(c)
    \/ \E c \in 1..MaxCalls : QueueRead(c)
    \/ \E u \in 1..MaxCalls : UnitBind(u)
    \/ \E u \in 1..MaxCalls : UnitSend(u)

Spec == Init /\ [][Next]_vars

\* Fair scheduling: thread.start() makes the unit runnable and the scheduler
\* runs it, so a started unit binds its arguments and a running body makes
\* its next put; queue.get() wakes up once the queue holds an item.  No
\* fairness is assumed of the callers (Construct, Call, QueueRead).
FairSpec ==
    /\ Spec
    /\ \A u \in 1..MaxCalls : WF_vars(UnitBind(u)) /\ WF_vars(UnitSend(u))
    /\ \A c \in 1..MaxCalls : WF_vars(BlockingGet(c))

(* ------------------------------ the claims ---------------------------- *)

\* the invocations that took the dispatching branch of __call__
Dispatched == {c \in 1..Len(calls) : calls[c].branch = "dispatch"}

\* the invocations that took the wrapping branch of __call__
Wrapping == {c \in 1..Len(calls) : calls[c].branch = "wrap"}

\* the values the unit of invocation c has sent so far on the queue injected
\* for that invocation, in the order sent
SentOn(c) ==
    LET sent == units[calls[c].unit].sent
    IN  [i \in 1..Len(sent) |-> sent[i].x]

OnOwnQueue(c) ==
    \A i \in 1..Len(units[calls[c].unit].sent) :
        units[calls[c].unit].sent[i].q = calls[c].queue

\* C1: a call of a Blocking wrapper has not returned before the callable it
\* spawned has sent a value on the queue injected for that call, and what it
\* returns is the (first) value that callable sent.
C1_BlockingReturnsSentValue ==
    \A c \in Dispatched :
        (Variant(wrapper.cls) = "_BlockingBase" /\ calls[c].pc = "returned") =>
            /\ SentOn(c) # <<>>
            /\ OnOwnQueue(c)
            /\ calls[c].result = <<SentOn(c)[1]>>

C1_Witness ==
    \E c \in Dispatched :
        /\ Variant(wrapper.cls) = "_BlockingBase"
        /\ calls[c].pc = "returned"
        /\ calls[c].result = <<PyInt(1)>>
        /\ units[calls[c].unit].sent = <<[q |-> calls[c].queue, x |-> PyInt(1)]>>

\* C2: when the callable of a QueuedResult call has completed having sent
\* one value on the injected queue, the returned queue is the injected one,
\* reading it yields that value and yields it only once: the value is either
\* still on the queue or has been read exactly once, and nothing else is.
C2_QueuedValueOnce ==
    \A c \in Dispatched :
        ( /\ Variant(wrapper.cls) = "_QueuedResultBase"
          /\ units[calls[c].unit].pc = "done"
          /\ Len(SentOn(c)) = 1 ) =>
            /\ OnOwnQueue(c)
            /\ calls[c].result[2] = Chan(calls[c].queue)
            /\ \A i \in 1..Len(calls[c].got) : calls[c].got[i] = SentOn(c)[1]
            /\ Len(calls[c].got) + Len(chans[calls[c].result[2].v]) = 1

C2_Witness ==
    \E c \in Dispatched :
        /\ Variant(wrapper.cls) = "_QueuedResultBase"
        /\ units[calls[c].unit].pc = "done"
        /\ SentOn(c) = <<PyInt(1)>>
        /\ calls[c].got = <<PyInt(1)>>
        /\ calls[c].empties = 1

\* C3: a call of a fire-and-forget or QueuedResult wrapper is never waiting:
\* it has returned, with the handle resp. the pair (handle, queue), whatever
\* the unit does; a call that has not returned is a Blocking call, and it is
\* in the queue receive.
C3_OnlyBlockingWaits ==
    \A c \in Dispatched :
        /\ Variant(wrapper.cls) = "_AsyncBase" =>
              /\ calls[c].pc = "returned"
              /\ calls[c].result = <<Handle(calls[c].unit)>>
        /\ Variant(wrapper.cls) = "_QueuedResultBase" =>
              /\ calls[c].pc = "returned"
              /\ calls[c].result = <<Handle(calls[c].unit), Chan(calls[c].queue)>>
        /\ calls[c].pc # "returned" =>
              /\ Variant(wrapper.cls) = "_BlockingBase"
              /\ calls[c].pc = "get"

\* a returned QueuedResult call whose callable never finishes and never sends
C3_Witness ==
    \E c \in Dispatched :
        /\ Variant(wrapper.cls) = "_QueuedResultBase"
        /\ calls[c].pc = "returned"
        /\ units[calls[c].unit].pc = "running"
        /\ FuncDefs[units[calls[c].unit].target.v].ends = "hang"
        /\ units[calls[c].unit].sent = <<>>

\* C4: the unit of a fire-and-forget call has the wrapped function as its
\* target and exactly the caller's positional and keyword arguments.
C4_ArgumentsUnchanged ==
    \A c \in Dispatched :
        Variant(wrapper.cls) = "_AsyncBase" =>
            /\ units[calls[c].unit].target = wrapper.wrapped
            /\ units[calls[c].unit].args =
                  (IF calls[c].inst = None THEN calls[c].args
                   ELSE <<calls[c].inst>> \o calls[c].args)
            /\ units[calls[c].unit].kwargs = calls[c].kwargs

\* a unit that ran work(a=2) to its end
C4_Witness ==
    \E c \in Dispatched :
        /\ Variant(wrapper.cls) = "_AsyncBase"
        /\ calls[c].kwargs = [k \in {"a"} |-> PyInt(2)]
        /\ units[calls[c].unit].target = Func(2)
        /\ units[calls[c].unit].pc = "done"

\* the insertion index the first declared parameter calls for
ReceiverIndex(f) ==
    IF Len(FuncDefs[f.v].params) > 0 /\ FuncDefs[f.v].params[1] \in {"self", "cls"}
    THEN 1 ELSE 0

\* C5: a QueuedResult or Blocking wrapper that has wrapped a callable has
\* insertion index 1 when the callable's first declared parameter is self or
\* cls and 0 otherwise, also when it declares no named parameter.
C5_InsertionIndex ==
    ( /\ Variant(wrapper.cls) # "_AsyncBase"
      /\ wrapper.wraps > 0
      /\ wrapper.wrapped \in Callables ) =>
        /\ "QUEUE_INSERTION_INDEX" \in DOMAIN wrapper.d
        /\ wrapper.d["QUEUE_INSERTION_INDEX"] = PyInt(ReceiverIndex(wrapper.wrapped))

\* a wrapper of silent(cls, q), with index 1
C5_Witness ==
    /\ Variant(wrapper.cls) # "_AsyncBase"
    /\ wrapper.wrapped = Func(6)
    /\ wrapper.d["QUEUE_INSERTION_INDEX"] = PyInt(1)

\* C6: a method decorated with a QueuedResult or Blocking variant and invoked
\* through an instance runs with (instance, queue, caller's arguments...).
C6_InstanceThenQueue ==
    \A c \in Dispatched :
        ( /\ Variant(wrapper.cls) # "_AsyncBase"
          /\ wrapper.wrapped \in Callables
          /\ ReceiverIndex(wrapper.wrapped) = 1
          /\ calls[c].inst # None ) =>
            /\ units[calls[c].unit].args =
                  <<calls[c].inst, Chan(calls[c].queue)>> \o calls[c].args
            /\ units[calls[c].unit].kwargs = calls[c].kwargs

\* obj.method(1) ran with (obj, queue, 1) and sent 1
C6_Witness ==
    \E c \in Dispatched :
        /\ Variant(wrapper.cls) # "_AsyncBase"
        /\ wrapper.wrapped = Func(4)
        /\ calls[c].inst = Obj(1)
        /\ units[calls[c].unit].args = <<Obj(1), Chan(calls[c].queue), PyInt(1)>>
        /\ units[calls[c].unit].sent = <<[q |-> calls[c].queue, x |-> PyInt(1)]>>

\* C7: a wrapper constructed with configuration only and then called with a
\* callable is in the state direct construction with that callable and that
\* configuration gives: same function, daemon flag, options and index.
C7_DeferredEqualsDirect ==
    ( /\ wrapper.ctor.function = None
      /\ wrapper.wraps = 1
      /\ wrapper.wrapped \in Callables ) =>
        \A py \in PythonVersions :
            wrapper.d = AsyncBase_init(wrapper.cls, wrapper.wrapped,
                                       wrapper.ctor.daemon, wrapper.ctor.kwargs,
                                       py).d

\* C8: a call whose arguments do not bind to the wrapped callable's signature
\* (counted after the queue is injected) raises to the caller.
C8_BindingErrorRaisedToCaller ==
    \A c \in Dispatched :
        ~Bind(units[calls[c].unit].target, units[calls[c].unit].args,
              units[calls[c].unit].kwargs).ok
            => calls[c].pc = "raised"

\* C9: invoking a configuration-only wrapper with no argument or with one
\* that is not callable raises, and the wrapper does not hold the argument.
C9_NonCallableRejected ==
    \A c \in Wrapping :
        (calls[c].args = <<>> \/ calls[c].args[1] \notin Callables) =>
            /\ calls[c].pc = "raised"
            /\ calls[c].args # <<>> => wrapper.d["function"] # calls[c].args[1]

\* C10: every dispatching invocation has created one unit of its own and
\* started it: n invocations, n started units, none shared.
C10_OneUnitPerInvocation ==
    /\ Len(units) = Cardinality(Dispatched)
    /\ \A c \in Dispatched :
          /\ calls[c].unit \in 1..Len(units)
          /\ units[calls[c].unit].started
          /\ units[calls[c].unit].pc # "new"
    /\ \A c1, c2 \in Dispatched : c1 # c2 => calls[c1].unit # calls[c2].unit

C10_Witness ==
    /\ Cardinality(Dispatched) = 2
    /\ Len(units) = 2
    /\ \A u \in 1..2 : units[u].started

\* C11: every unit spawned by the wrapper was started with its daemon flag
\* already set, and set to the value the wrapper was configured with at
\* decoration time (True when none was given).
C11_DaemonAsConfigured ==
    \A c \in Dispatched :
        /\ units[calls[c].unit].started
        /\ units[calls[c].unit].daemonAtStart = wrapper.ctor.daemon

\* C12: for a QueuedResult or Blocking wrapper, whenever a dispatch has been
\* performed the insertion index is already set on the wrapper, and it has
\* been computed exactly once, whether the callable came at construction or
\* by a deferred wrap.
C12_IndexComputedOnce ==
    (Variant(wrapper.cls) # "_AsyncBase" /\ Dispatched # {}) =>
        /\ "QUEUE_INSERTION_INDEX" \in DOMAIN wrapper.d
        /\ wrapper.indexed = 1

\* a dispatch through a wrapper that got its callable by a deferred wrap,
\* and one through a wrapper that got it at construction
C12_Witness ==
    /\ Variant(wrapper.cls) # "_AsyncBase"
    /\ wrapper.ctor.function = None
    /\ Wrapping # {}
    /\ Dispatched # {}
    /\ wrapper.indexed = 1
    /\ wrapper.d["QUEUE_INSERTION_INDEX"] = PyInt(1)

\* C13: after the wrapper has wrapped a callable, at construction or by a
\* deferred wrap, its __name__ and __doc__ are those of the wrapped callable,
\* and it is still the instance of the decorator class it was constructed
\* as: the deferred wrap returned the wrapper itself.
C13_NameAndDocOfWrapped ==
    (wrapper.wraps >= 1 /\ wrapper.wrapped \in Callables) =>
        /\ wrapper.d["function"] = wrapper.wrapped
        /\ "__name__" \in DOMAIN wrapper.d
        /\ wrapper.d["__name__"] = Str(wrapper.wrapped.v)
        /\ "__doc__" \in DOMAIN wrapper.d
        /\ wrapper.d["__doc__"] = Str(wrapper.wrapped.v)
        /\ wrapper.cls \in Classes
        /\ \A c \in Wrapping :
              calls[c].args = <<wrapper.wrapped>> =>
                  /\ calls[c].pc = "returned"
                  /\ calls[c].result = <<WrapperRef>>

\* a Blocking wrapper that took produce by a deferred wrap, and one that
\* took it at construction would do as well
C13_Witness ==
    /\ wrapper.cls = "Thread.Blocking"
    /\ wrapper.ctor.function = None
    /\ wrapper.wraps = 1
    /\ wrapper.wrapped = Func(3)
    /\ wrapper.d["__name__"] = Str(3)
    /\ wrapper.d["__doc__"] = Str(3)
    /\ \E c \in Wrapping : calls[c].result = <<WrapperRef>>

\* the callable of the Blocking invocation c has sent on the injected queue
HasSent(c) ==
    IF c \in Dispatched /\ Variant(wrapper.cls) = "_BlockingBase"
    THEN SentOn(c) # <<>>
    ELSE FALSE

\* the callable of the Blocking invocation c is going to send: its arguments
\* bind, and what it takes as its queue is a queue
WillSend(c) ==
    IF c \in Dispatched /\ Variant(wrapper.cls) = "_BlockingBase"
    THEN LET th == units[calls[c].unit]
             b == Bind(th.target, th.args, th.kwargs)
             f == FuncDefs[th.target.v]
         IN  IF b.ok /\ f.out # <<>> THEN b.env[f.chan].t = "Queue" ELSE FALSE
    ELSE FALSE

Returned(c) ==
    IF c \in 1..Len(calls) THEN calls[c].pc = "returned" ELSE FALSE

\* C14: under fair scheduling of the unit, a Blocking call whose callable
\* has sent a value on the injected queue eventually returns; and a Blocking
\* call whose callable is going to send eventually returns as well.
C14_BlockingEventuallyReturns ==
    \A c \in 1..MaxCalls :
        /\ HasSent(c) ~> Returned(c)
        /\ WillSend(c) ~> Returned(c)

\* a Blocking call that returned what its callable sent after having waited
\* for it: the second of two calls, whose unit sent twice
C14_Witness ==
    \E c \in Dispatched :
        /\ Variant(wrapper.cls) = "_BlockingBase"
        /\ calls[c].pc = "returned"
        /\ Len(SentOn(c)) = 2
        /\ calls[c].result = <<SentOn(c)[1]>>

\* C15: a Blocking call whose callable has finished, by returning or by an
\* error raised inside the unit, without ever having sent on the injected
\* queue has not returned and never will: the caller is in queue.get(), the
\* queue is empty, and no step changes the call or its unit again.
C15_SilentCallableBlocksForever ==
    [][ \A c \in Dispatched :
          ( /\ Variant(wrapper.cls) = "_BlockingBase"
            /\ units[calls[c].unit].pc \in {"done", "failed"}
            /\ units[calls[c].unit].sent = <<>> ) =>
              /\ calls[c].pc = "get"
              /\ chans[calls[c].queue] = <<>>
              /\ ~ENABLED BlockingGet(c)
              /\ calls'[c] = calls[c]
              /\ units'[calls[c].unit] = units[calls[c].unit]
              /\ chans'[calls[c].queue] = <<>> ]_vars

\* a caller blocked on a callable that raised without sending (silent)
C15_Witness ==
    \E c \in Dispatched :
        /\ Variant(wrapper.cls) = "_BlockingBase"
        /\ units[calls[c].unit].pc = "failed"
        /\ units[calls[c].unit].err = "RuntimeError"
        /\ units[calls[c].unit].sent = <<>>
        /\ calls[c].pc = "get"

\* C16: a call made through class-level access (no instance) that supplies no
\* receiver to a callable declaring one (self or cls) raises to the caller,
\* and no unit is spawned for it.
C16_MissingReceiverRaised ==
    \A c \in Dispatched :
        ( /\ ReceiverIndex(wrapper.wrapped) = 1
          /\ calls[c].inst = None
          /\ calls[c].args = <<>> ) =>
            /\ calls[c].pc = "raised"
            /\ calls[c].unit = 0

\* the wrapper holds a callable
HoldsCallable ==
    IF wrapper = NoWrapper THEN FALSE ELSE wrapper.d["function"] \in Callables

\* C17: once the wrapper holds a callable, no step changes the wrapper (its
\* function, insertion index, daemon flag and options, and every other
\* attribute), and every further call takes the dispatching branch, also a
\* call whose only argument is a callable.
C17_NoRewrap ==
    [][ HoldsCallable =>
          /\ wrapper' = wrapper
          /\ Len(calls') > Len(calls) =>
                /\ calls'[Len(calls')].branch = "dispatch"
                /\ Len(units') = Len(units) + 1
                /\ units'[Len(units')].target = wrapper.d["function"] ]_vars

\* a wrapper of produce called with a callable as its only argument: the
\* call was dispatched and the wrapper still holds produce, index 0
C17_Witness ==
    /\ HoldsCallable
    /\ Variant(wrapper.cls) # "_AsyncBase"
    /\ wrapper.d["function"] = Func(3)
    /\ wrapper.d["QUEUE_INSERTION_INDEX"] = PyInt(0)
    /\ \E c \in Dispatched :
          /\ calls[c].args = <<Func(1)>>
          /\ units[calls[c].unit].target = Func(3)

\* what the caller of invocation c has received so far from the queue of
\* that invocation
Received(c) ==
    IF Variant(wrapper.cls) = "_BlockingBase"
    THEN (IF calls[c].pc = "returned" THEN calls[c].result ELSE <<>>)
    ELSE calls[c].got

\* the items on the queue of invocation c, as the values a get would give
Pending(c) ==
    [i \in 1..Len(chans[calls[c].queue]) |-> Unpickle(chans[calls[c].queue][i])]

\* C18: every call of a QueuedResult or Blocking wrapper has a queue and a
\* unit of its own; the unit was handed that queue and no other, sends only
\* on it, and what the caller has received, followed by what is still on
\* the queue, is exactly what the unit of its own call has sent.
C18_QueuePerCall ==
    Variant(wrapper.cls) # "_AsyncBase" =>
        /\ \A c1, c2 \in Dispatched :
              c1 # c2 => /\ calls[c1].queue # calls[c2].queue
                         /\ calls[c1].unit # calls[c2].unit
        /\ \A c \in Dispatched :
              /\ calls[c].queue \in 1..Len(chans)
              /\ \A i \in 1..Len(units[calls[c].unit].args) :
                    units[calls[c].unit].args[i].t = "Queue" =>
                        units[calls[c].unit].args[i] = Chan(calls[c].queue)
              /\ \E i \in 1..Len(units[calls[c].unit].args) :
                    units[calls[c].unit].args[i] = Chan(calls[c].queue)
              /\ OnOwnQueue(c)
              /\ Received(c) \o Pending(c) = SentOn(c)

\* two concurrent Blocking calls of one wrapper, both units having sent: the
\* second caller has received the value of its own call while the value of
\* the first call is still on the first call's queue
C18_Witness ==
    /\ Variant(wrapper.cls) = "_BlockingBase"
    /\ Dispatched = {1, 2}
    /\ SentOn(1) = <<PyInt(1)>>
    /\ SentOn(2) = <<PyInt(2)>>
    /\ calls[1].pc = "get" /\ Pending(1) = <<PyInt(1)>>
    /\ calls[2].pc = "returned" /\ calls[2].result = <<PyInt(2)>>

\* C19: a Blocking call receives exactly once: a returned call has the first
\* value its callable sent, and every later value the callable has sent is
\* still on the queue, unread.
C19_OneReceive ==
    \A c \in Dispatched :
        (Variant(wrapper.cls) = "_BlockingBase" /\ calls[c].pc = "returned") =>
            /\ Len(calls[c].result) = 1
            /\ calls[c].result[1] = SentOn(c)[1]
            /\ Pending(c) = Tail(SentOn(c))
            /\ ~ENABLED BlockingGet(c)

\* twice(q, a) called with 1 has sent 1 and then 9: the call returned 1 and
\* 9 stays on the queue
C19_Witness ==
    \E c \in Dispatched :
        /\ Variant(wrapper.cls) = "_BlockingBase"
        /\ units[calls[c].unit].target = Func(5)
        /\ calls[c].pc = "returned"
        /\ calls[c].result = <<PyInt(1)>>
        /\ SentOn(c) = <<PyInt(1), PyInt(9)>>
        /\ Pending(c) = <<PyInt(9)>>
        /\ units[calls[c].unit].pc = "done"

\* the positional arguments __call__ was given for invocation c
Supplied(c) == BoundArgs(calls[c].inst, calls[c].args)

\* min(insertion index, number of positional arguments supplied)
QueuePosition(c) ==
    IF wrapper.d["QUEUE_INSERTION_INDEX"].v < Len(Supplied(c))
    THEN wrapper.d["QUEUE_INSERTION_INDEX"].v
    ELSE Len(Supplied(c))

\* C20: in a QueuedResult or Blocking call the callable is passed one
\* positional argument more than was supplied; the queue is at position
\* min(insertion index, number supplied), counted from 0, the supplied
\* arguments before and after it are in their order, and the keyword
\* arguments are the caller's.
C20_QueuePosition ==
    \A c \in Dispatched :
        Variant(wrapper.cls) # "_AsyncBase" =>
            LET uargs == units[calls[c].unit].args
                pos == QueuePosition(c)
            IN  /\ Len(uargs) = Len(Supplied(c)) + 1
                /\ uargs[pos + 1] = Chan(calls[c].queue)
                /\ \A i \in 1..Len(Supplied(c)) :
                      IF i <= pos THEN uargs[i] = Supplied(c)[i]
                      ELSE uargs[i + 1] = Supplied(c)[i]
                /\ units[calls[c].unit].kwargs = calls[c].kwargs

\* insertion index 1 and no positional argument: the queue is the first and
\* only positional argument, the keyword argument a=2 is passed on
C20_Witness ==
    \E c \in Dispatched :
        /\ Variant(wrapper.cls) # "_AsyncBase"
        /\ wrapper.d["QUEUE_INSERTION_INDEX"] = PyInt(1)
        /\ calls[c].inst = None
        /\ calls[c].args = <<>>
        /\ calls[c].kwargs = [k \in {"a"} |-> PyInt(2)]
        /\ units[calls[c].unit].args = <<Chan(calls[c].queue)>>
        /\ units[calls[c].unit].kwargs = calls[c].kwargs
        /\ units[calls[c].unit].pc # "started"

====
